---------------------------- MODULE Spec2Model ----------------------------
(***************************************************************************)
(* envtemplater (main.go): renders text templates against the process      *)
(* environment, for one input/output file pair or for a directory tree.    *)
(*                                                                         *)
(* Go strings are sequences of one-character strings, paths are sequences  *)
(* of path components (relative to the working directory), and the empty   *)
(* sequence is the empty string "".                                        *)
(***************************************************************************)
EXTENDS Integers, Sequences, FiniteSets, TLC

VARIABLES
    pc,             \* position of main/Run: flags, mirror, context, resolve, load, render, save, done, failed
    failedIn,       \* the step whose error ended the process ("none" while none did)
    flags,          \* Flags: IF, OF, ID, OD (fields IFile, OFile, IDir, ODir)
    dirs,           \* file system: the directories that exist
    files,          \* file system: non-directory entries, path -> content
    noperm,         \* file system: entries whose permission bits deny access
    environ,        \* os.Environ(): sequence of NAME=VALUE strings
    tx,             \* TemplateContext.envs
    templateFiles,  \* Run's templateFiles slice
    idx,            \* index of the current loop of Run (1-based)
    log,            \* history: calls of LoadInput/Template/SaveOutput made by this run
    files0,         \* history: `files` when the process started
    mirrored,       \* history: (src, rmt) of the last recursiveCopyDir that returned nil
    runs,           \* number of process invocations so far
    call,           \* history: the last context method the last Template call made
    ret             \* history: what that method returned

vars == <<pc, failedIn, flags, dirs, files, noperm, environ, tx, templateFiles,
          idx, log, files0, mirrored, runs, call, ret>>

-----------------------------------------------------------------------------
(* Bounds *)

MaxValueLen == 3    \* longest environment value enumerated for the context API
MaxRuns == 2        \* process invocations on the same file system
MaxDepth == 5       \* longest path the file system accepts (ENAMETOOLONG beyond)

-----------------------------------------------------------------------------
(* package strings, as used by main.go *)

NL == <<"\n">>
EQ == <<"=">>

RECURSIVE SeqsUpTo(_, _)
SeqsUpTo(S, n) ==
    IF n = 0 THEN {<<>>}
    ELSE LET shorter == SeqsUpTo(S, n - 1)
         IN  shorter \cup {Append(s, c) : s \in shorter, c \in S}

RECURSIVE Concat(_)
Concat(ss) == IF ss = <<>> THEN <<>> ELSE Head(ss) \o Concat(Tail(ss))

HasPrefixAt(s, sep, m) ==
    /\ m + Len(sep) <= Len(s)
    /\ \A j \in 1..Len(sep) : s[m + j] = sep[j]

\* strings.Index: offset of the first occurrence of sep in s, -1 if none
Index(s, sep) ==
    IF \E m \in 0..Len(s) : HasPrefixAt(s, sep, m)
    THEN CHOOSE m \in 0..Len(s) :
            /\ HasPrefixAt(s, sep, m)
            /\ \A k \in 0..(m - 1) : ~HasPrefixAt(s, sep, k)
    ELSE -1

\* strings.explode: s split into characters, at most n pieces (n < 0: all)
RECURSIVE explode(_, _)
explode(s, n) ==
    LET l == Len(s)
        nn == IF n < 0 \/ n > l THEN l ELSE n
    IN  IF nn = 0 THEN <<>>
        ELSE IF nn = 1 THEN <<s>>
        ELSE <<SubSeq(s, 1, 1)>> \o explode(Tail(s), nn - 1)

\* the loop of strings.genSplit for a non-empty sep; n < 0 means no limit
RECURSIVE splitLoop(_, _, _)
splitLoop(s, sep, n) ==
    LET m == Index(s, sep)
    IN  IF n = 1 \/ m < 0 THEN <<s>>
        ELSE <<SubSeq(s, 1, m)>>
             \o splitLoop(SubSeq(s, m + Len(sep) + 1, Len(s)), sep,
                          IF n < 0 THEN n ELSE n - 1)

genSplit(s, sep, n) ==
    IF n = 0 THEN <<>>
    ELSE IF sep = <<>> THEN explode(s, n)
    ELSE splitLoop(s, sep, n)

Split(s, sep) == genSplit(s, sep, -1)
SplitN(s, sep, n) == genSplit(s, sep, n)

RECURSIVE TrimLeft(_, _)
TrimLeft(s, cutset) ==
    IF s # <<>> /\ \E i \in 1..Len(cutset) : cutset[i] = Head(s)
    THEN TrimLeft(Tail(s), cutset)
    ELSE s

RECURSIVE TrimRight(_, _)
TrimRight(s, cutset) ==
    IF s # <<>> /\ \E i \in 1..Len(cutset) : cutset[i] = s[Len(s)]
    THEN TrimRight(SubSeq(s, 1, Len(s) - 1), cutset)
    ELSE s

\* strings.Trim removes the cutset characters from both ends
Trim(s, cutset) == TrimRight(TrimLeft(s, cutset), cutset)

-----------------------------------------------------------------------------
(* Template context *)

NoEnvs == [n \in {} |-> <<>>]
Put(m, k, v) == [x \in (DOMAIN m) \cup {k} |-> IF x = k THEN v ELSE m[x]]

RECURSIVE BuildEnvs(_, _)
BuildEnvs(entries, envs) ==
    IF entries = <<>> THEN envs
    ELSE LET substrs == SplitN(Head(entries), EQ, 2)
         IN  BuildEnvs(Tail(entries), Put(envs, substrs[1], Trim(substrs[2], NL)))

NewTemplateContext(osEnviron) == BuildEnvs(osEnviron, NoEnvs)

\* A Go result (value, error); err = "nil" is success.  A nil slice or map is <<>>.
Ok(v) == [val |-> v, err |-> "nil"]
Fail(e) == [val |-> <<>>, err |-> e]

EnvDefaulted(envs, name) ==
    IF name \in DOMAIN envs THEN Ok(envs[name]) ELSE Ok(<<>>)

Env(envs, name) ==
    IF name \in DOMAIN envs THEN Ok(envs[name]) ELSE Fail("MissingVariable")

List(envs, name, delimiter) ==
    LET env == Env(envs, name)
    IN  IF env.err # "nil" THEN Fail(env.err)
        ELSE Ok(Split(env.val, delimiter))

\* the loop of Dict: v[1] of a one-element (or empty) v panics with
\* "index out of range", which leaves Dict without returning a map
RECURSIVE DictLoopSkipping(_, _, _)
DictLoopSkipping(items, kvDelimeter, dict) ==
    IF items = <<>> THEN Ok(dict)
    ELSE LET v == SplitN(Head(items), kvDelimeter, 2)
         IN  IF Len(v) < 2 THEN DictLoopSkipping(Tail(items), kvDelimeter, dict)
             ELSE DictLoopSkipping(Tail(items), kvDelimeter, Put(dict, v[1], v[2]))

RECURSIVE DictLoop(_, _, _)
DictLoop(items, kvDelimeter, dict) ==
    IF items = <<>> THEN Ok(dict)
    ELSE LET v == SplitN(Head(items), kvDelimeter, 2)
         IN  IF Len(v) < 2 THEN Fail("IndexOutOfRange")
             ELSE DictLoop(Tail(items), kvDelimeter, Put(dict, v[1], v[2]))

Dict(envs, name, itemDelimeter, kvDelimeter) ==
    LET env == Env(envs, name)
    IN  IF env.err # "nil" THEN Fail(env.err)
        ELSE DictLoop(Split(env.val, itemDelimeter), kvDelimeter, NoEnvs)

Exist(envs, name) == name \in DOMAIN envs
NotExist(envs, name) == ~(name \in DOMAIN envs)


-----------------------------------------------------------------------------
(* Template file: text/template as TemplateFile.Template uses it.          *)
(* A file's text is held as the token sequence the engine's lexer yields:  *)
(* literal text and {{ }} actions calling the context; `parses` is FALSE   *)
(* for a text the parser rejects.                                          *)

Text(s) == [k |-> "text", name |-> <<>>, a |-> <<>>, b |-> <<>>, s |-> s]
\* {{ .Env "name" }}
EnvAction(name) == [k |-> "Env", name |-> name, a |-> <<>>, b |-> <<>>, s |-> <<>>]
\* {{ range .List "name" "d" }}{{ . }}{{ end }}
ListAction(name, d) == [k |-> "List", name |-> name, a |-> d, b |-> <<>>, s |-> <<>>]
\* {{ index (.Dict "name" "i" "kv") "key" }}
DictAction(name, i, kv, key) == [k |-> "Dict", name |-> name, a |-> i, b |-> kv, s |-> key]
\* {{ if .Exist "name" }}s{{ end }}
ExistAction(name, s) == [k |-> "Exist", name |-> name, a |-> <<>>, b |-> <<>>, s |-> s]
\* {{ if .NotExist "name" }}s{{ end }}
NotExistAction(name, s) == [k |-> "NotExist", name |-> name, a |-> <<>>, b |-> <<>>, s |-> s]

Content(segs) == [parses |-> TRUE, segs |-> segs]
Unparsable == [parses |-> FALSE, segs |-> <<>>]
Plain(s) == Content(<<Text(s)>>)
EmptyText == Plain(<<>>)

NoCall == [op |-> "none", name |-> <<>>, a |-> <<>>, b |-> <<>>]
CallOf(seg) == [op |-> seg.k, name |-> seg.name, a |-> seg.a, b |-> seg.b]

\* the method of the context an action calls, and what it returns
Invoke(envs, seg) ==
    CASE seg.k = "Env" -> Env(envs, seg.name)
      [] seg.k = "List" -> List(envs, seg.name, seg.a)
      [] seg.k = "Dict" -> Dict(envs, seg.name, seg.a, seg.b)
      [] seg.k = "Exist" -> Ok(Exist(envs, seg.name))
      [] seg.k = "NotExist" -> Ok(NotExist(envs, seg.name))

\* the text an action writes to the buffer, given the value the method returned
Emit(seg, v) ==
    CASE seg.k = "Env" -> v
      [] seg.k = "List" -> Concat(v)
      [] seg.k = "Dict" -> IF seg.s \in DOMAIN v THEN v[seg.s] ELSE <<>>
      [] seg.k = "Exist" -> IF v THEN seg.s ELSE <<>>
      [] seg.k = "NotExist" -> IF v THEN seg.s ELSE <<>>

\* templater.Execute(buf, tx): an error (or recovered panic) of a called
\* method ends the execution with an error.  `last` is the last method call
\* made and its result.
RECURSIVE Execute(_, _, _, _)
Execute(envs, segs, buf, last) ==
    IF segs = <<>> THEN [out |-> buf, err |-> "nil", last |-> last]
    ELSE IF Head(segs).k = "text"
    THEN Execute(envs, Tail(segs), buf \o Head(segs).s, last)
    ELSE LET r == Invoke(envs, Head(segs))
             made == [call |-> CallOf(Head(segs)), ret |-> r]
         IN  IF r.err # "nil"
             THEN [out |-> <<>>, err |-> "TemplateEvalError", last |-> made]
             ELSE Execute(envs, Tail(segs), buf \o Emit(Head(segs), r.val), made)

NoneMade == [call |-> NoCall, ret |-> Ok(<<>>)]

\* TemplateFile.Template: parse tf.Input, execute it, set tf.Output
Template(envs, tf) ==
    IF ~tf.Input.parses
    THEN [tf |-> tf, err |-> "TemplateSyntaxError", last |-> NoneMade]
    ELSE LET e == Execute(envs, tf.Input.segs, <<>>, NoneMade)
         IN  IF e.err # "nil" THEN [tf |-> tf, err |-> e.err, last |-> e.last]
             ELSE [tf |-> [tf EXCEPT !.Output = Plain(e.out)], err |-> "nil",
                   last |-> e.last]

NewTemplateFile(inputPath, outputPath) ==
    [InputPath |-> inputPath, Input |-> EmptyText,
     OutputPath |-> outputPath, Output |-> EmptyText]

-----------------------------------------------------------------------------
(* Operations with FS *)

\* entry names, in the byte order os.ReadDir sorts by
NameOrder == <<"a.txt", "b.txt", "empty", "in", "out", "sub">>

Parent(p) == SubSeq(p, 1, Len(p) - 1)
IsPrefix(p, q) == Len(p) <= Len(q) /\ SubSeq(q, 1, Len(p)) = p
IsFile(fl, p) == p \in DOMAIN fl
Exists(ds, fl, p) == p \in ds \/ IsFile(fl, p)

\* errno of resolving the directory that is to hold p
ParentErr(ds, fl, p) ==
    IF Parent(p) \in ds THEN "nil"
    ELSE IF \E n \in 1..(Len(p) - 1) : IsFile(fl, SubSeq(p, 1, n)) THEN "ENOTDIR"
    ELSE "ENOENT"

\* os.Mkdir(path, 0775)
Mkdir(ds, fl, np, path) ==
    IF path = <<>> THEN [dirs |-> ds, err |-> "ENOENT"]
    ELSE IF Len(path) > MaxDepth THEN [dirs |-> ds, err |-> "ENAMETOOLONG"]
    ELSE IF ParentErr(ds, fl, path) # "nil" THEN [dirs |-> ds, err |-> ParentErr(ds, fl, path)]
    ELSE IF Exists(ds, fl, path) THEN [dirs |-> ds, err |-> "EEXIST"]
    ELSE IF Parent(path) \in np THEN [dirs |-> ds, err |-> "EACCES"]
    ELSE [dirs |-> ds \cup {path}, err |-> "nil"]

safeMkdir(ds, fl, np, path) ==
    LET r == Mkdir(ds, fl, np, path)
    IN  IF r.err = "EEXIST" THEN [r EXCEPT !.err = "nil"] ELSE r

\* os.ReadDir(path): the entry names of a directory, sorted by name
ReadDir(ds, fl, np, path) ==
    IF path = <<>> THEN Fail("ENOENT")
    ELSE IF path \notin ds
    THEN Fail(IF \E n \in 1..Len(path) : IsFile(fl, SubSeq(path, 1, n))
              THEN "ENOTDIR" ELSE "ENOENT")
    ELSE IF path \in np THEN Fail("EACCES")
    ELSE Ok(SelectSeq(NameOrder, LAMBDA n : Exists(ds, fl, Append(path, n))))

Joined(name, subs) == [i \in 1..Len(subs) |-> <<name>> \o subs[i]]

RECURSIVE recursiveGetDirs(_, _, _, _)
RECURSIVE GetDirsLoop(_, _, _, _, _, _)
GetDirsLoop(ds, fl, np, path, entries, acc) ==
    IF entries = <<>> THEN Ok(acc)
    ELSE LET name == Head(entries)
         IN  IF Append(path, name) \notin ds
             THEN GetDirsLoop(ds, fl, np, path, Tail(entries), acc)
             ELSE LET sub == recursiveGetDirs(ds, fl, np, Append(path, name))
                  IN  IF sub.err # "nil"
                      THEN [val |-> Append(acc, <<name>>), err |-> sub.err]
                      ELSE GetDirsLoop(ds, fl, np, path, Tail(entries),
                                       Append(acc, <<name>>) \o Joined(name, sub.val))

recursiveGetDirs(ds, fl, np, path) ==
    LET rd == ReadDir(ds, fl, np, path)
    IN  IF rd.err # "nil" THEN Fail(rd.err)
        ELSE GetDirsLoop(ds, fl, np, path, rd.val, <<>>)

RECURSIVE recursiveGetFiles(_, _, _, _)
RECURSIVE GetFilesLoop(_, _, _, _, _, _)
RECURSIVE GetFilesLoopFlat(_, _, _, _, _, _)
GetFilesLoopFlat(ds, fl, np, path, entries, acc) ==
    IF entries = <<>> THEN Ok(acc)
    ELSE LET name == Head(entries)
         IN  IF Append(path, name) \notin ds
             THEN GetFilesLoopFlat(ds, fl, np, path, Tail(entries), Append(acc, <<name>>))
             ELSE LET sub == recursiveGetFiles(ds, fl, np, Append(path, name))
                  IN  IF sub.err # "nil"
                      THEN [val |-> acc, err |-> sub.err]
                      ELSE GetFilesLoopFlat(ds, fl, np, path, Tail(entries), acc \o sub.val)

GetFilesLoop(ds, fl, np, path, entries, acc) ==
    IF entries = <<>> THEN Ok(acc)
    ELSE LET name == Head(entries)
         IN  IF Append(path, name) \notin ds
             THEN GetFilesLoop(ds, fl, np, path, Tail(entries), Append(acc, <<name>>))
             ELSE LET sub == recursiveGetFiles(ds, fl, np, Append(path, name))
                  IN  IF sub.err # "nil"
                      THEN [val |-> acc, err |-> sub.err]
                      ELSE GetFilesLoop(ds, fl, np, path, Tail(entries),
                                        acc \o Joined(name, sub.val))

recursiveGetFiles(ds, fl, np, path) ==
    LET rd == ReadDir(ds, fl, np, path)
    IN  IF rd.err # "nil" THEN Fail(rd.err)
        ELSE GetFilesLoop(ds, fl, np, path, rd.val, <<>>)

RECURSIVE MkdirAll(_, _, _, _, _)
MkdirAll(ds, fl, np, rmt, rel) ==
    IF rel = <<>> THEN [dirs |-> ds, err |-> "nil"]
    ELSE LET r == safeMkdir(ds, fl, np, rmt \o Head(rel))
         IN  IF r.err # "nil" THEN r
             ELSE MkdirAll(r.dirs, fl, np, rmt, Tail(rel))

recursiveCopyDir(ds, fl, np, src, rmt) ==
    LET made == safeMkdir(ds, fl, np, rmt)
    IN  IF made.err # "nil" THEN made
        ELSE LET found == recursiveGetDirs(made.dirs, fl, np, src)
             IN  IF found.err # "nil" THEN [dirs |-> made.dirs, err |-> found.err]
                 ELSE MkdirAll(made.dirs, fl, np, rmt, found.val)

\* os.ReadFile(path)
ReadFile(ds, fl, np, path) ==
    IF path \in ds THEN [val |-> EmptyText, err |-> "EISDIR"]
    ELSE IF ~IsFile(fl, path) THEN [val |-> EmptyText, err |-> "ENOENT"]
    ELSE IF path \in np THEN [val |-> EmptyText, err |-> "EACCES"]
    ELSE [val |-> fl[path], err |-> "nil"]

\* os.WriteFile(path, data, 0664): create or truncate, then write
WriteFile(ds, fl, np, path, data) ==
    IF path \in ds THEN [files |-> fl, err |-> "EISDIR"]
    ELSE IF path = <<>> THEN [files |-> fl, err |-> "ENOENT"]
    ELSE IF Len(path) > MaxDepth THEN [files |-> fl, err |-> "ENAMETOOLONG"]
    ELSE IF ParentErr(ds, fl, path) # "nil" THEN [files |-> fl, err |-> ParentErr(ds, fl, path)]
    ELSE IF (IF IsFile(fl, path) THEN path \in np ELSE Parent(path) \in np)
    THEN [files |-> fl, err |-> "EACCES"]
    ELSE [files |-> Put(fl, path, data), err |-> "nil"]

LoadInput(ds, fl, np, tf) ==
    LET r == ReadFile(ds, fl, np, tf.InputPath)
    IN  IF r.err # "nil" THEN [tf |-> tf, err |-> r.err]
        ELSE [tf |-> [tf EXCEPT !.Input = r.val], err |-> "nil"]

SaveOutputOfInput(ds, fl, np, tf) == WriteFile(ds, fl, np, tf.OutputPath, tf.Input)

SaveOutput(ds, fl, np, tf) == WriteFile(ds, fl, np, tf.OutputPath, tf.Output)

-----------------------------------------------------------------------------
(* Flags *)

NoFlags == [IFile |-> <<>>, OFile |-> <<>>, IDir |-> <<>>, ODir |-> <<>>]

\* the validation switch of NewFlags: the first case that matches decides
Validate(f) ==
    IF f.IFile = <<>> /\ f.IDir = <<>> THEN "Required input file or input dir"
    ELSE IF f.IFile # <<>> /\ f.OFile = <<>> THEN "Required output file when using input file"
    ELSE IF f.IDir # <<>> /\ f.ODir = <<>> THEN "Required output dir when using input dir"
    ELSE "nil"

\* NewFlags: flagSet.Parse's error, else the validation's
NewFlags(args) ==
    IF ~args.wellFormed THEN [flags |-> NoFlags, err |-> "flag: parse error"]
    ELSE [flags |-> args.flags, err |-> Validate(args.flags)]

-----------------------------------------------------------------------------
(* Run *)

NextPhase(phase) ==
    CASE phase = "load" -> "render"
      [] phase = "render" -> "save"
      [] phase = "save" -> "done"

\* a range loop of Run after the call for element i of n returned nil
LoopNextShort(phase, i, n) ==
    IF i + 1 < n THEN [pc |-> phase, idx |-> i + 1]
    ELSE [pc |-> NextPhase(phase), idx |-> 1]

LoopNext(phase, i, n) ==
    IF i < n THEN [pc |-> phase, idx |-> i + 1]
    ELSE [pc |-> NextPhase(phase), idx |-> 1]

\* `if err != nil { return err }` after the call for element i of n
AfterCallUnchecked(phase, err, i, n) ==
    IF err # "nil" /\ phase # "render"
    THEN [pc |-> "failed", idx |-> i, failedIn |-> phase]
    ELSE [pc |-> LoopNext(phase, i, n).pc, idx |-> LoopNext(phase, i, n).idx,
          failedIn |-> "none"]

AfterCall(phase, err, i, n) ==
    IF err # "nil"
    THEN [pc |-> "failed", idx |-> i, failedIn |-> phase]
    ELSE [pc |-> LoopNext(phase, i, n).pc, idx |-> LoopNext(phase, i, n).idx,
          failedIn |-> "none"]

\* lines 239-258: the Template Files of the run
Resolve(ds, fl, np, f) ==
    IF f.IDir # <<>>
    THEN LET found == recursiveGetFiles(ds, fl, np, f.IDir)
         IN  IF found.err # "nil" THEN Fail(found.err)
             ELSE Ok([i \in 1..Len(found.val) |->
                        NewTemplateFile(f.IDir \o found.val[i], f.ODir \o found.val[i])])
    ELSE Ok(<<NewTemplateFile(f.IFile, f.OFile)>>)

Event(op, i, err) == [op |-> op, i |-> i, ok |-> (err = "nil")]

NoMirror == [src |-> <<>>, rmt |-> <<>>]

-----------------------------------------------------------------------------
(* Inputs *)

InDir == <<"in">>
OutDir == <<"out">>
A_TXT == <<"in", "a.txt">>
B_TXT == <<"in", "sub", "b.txt">>

N == <<"N">>
D == <<"D">>
SEMI == <<";">>

\* Hello {{ .Env "N" }}
Hello == Content(<<Text(<<"H">>), EnvAction(N)>>)
DictOfD == Content(<<DictAction(D, SEMI, EQ, <<"a">>)>>)
ListOfD == Content(<<ListAction(D, SEMI)>>)
Guarded == Content(<<ExistAction(N, <<"y">>), NotExistAction(N, <<"n">>)>>)

\* N=W and D=a=1;b=2
EnvSet == << <<"N", "=", "W">>, <<"D", "=", "a", "=", "1", ";", "b", "=", "2">> >>
\* N unset, D=a (no key/value separator)
EnvUnset == << <<"D", "=", "a">> >>

Tree(ds, a, b, np) ==
    [dirs |-> {<<>>} \cup ds, files |-> (A_TXT :> a) @@ (B_TXT :> b), noperm |-> np]

Scenarios ==
    { \* a.txt, sub/b.txt and the empty directory sub/empty; fresh destination
      Tree({InDir, <<"in", "sub">>, <<"in", "sub", "empty">>}, Hello, Guarded, {}),
      \* destination root exists and is empty
      Tree({InDir, <<"in", "sub">>, OutDir}, Guarded, DictOfD, {}),
      \* populated destination whose sub directory is not writable
      Tree({InDir, <<"in", "sub">>, OutDir, <<"out", "sub">>}, ListOfD, Hello, {<<"out", "sub">>}),
      \* an input file that is not readable
      Tree({InDir, <<"in", "sub">>}, Hello, Hello, {B_TXT}),
      \* a source directory that is not readable
      Tree({InDir, <<"in", "sub">>}, Hello, Hello, {<<"in", "sub">>}),
      \* a template with a syntax error
      Tree({InDir, <<"in", "sub">>}, Hello, Unparsable, {}) }

Environs == {EnvSet, EnvUnset}

Args ==
    [wellFormed : {TRUE},
     flags : [IFile : {<<>>, A_TXT}, OFile : {<<>>, <<"out", "sub">>, A_TXT},
              IDir : {<<>>, InDir}, ODir : {<<>>, OutDir, <<"in", "out">>}]]
    \cup {[wellFormed |-> FALSE, flags |-> NoFlags]}

-----------------------------------------------------------------------------
(* main *)

Init ==
    /\ pc = "flags"
    /\ failedIn = "none"
    /\ flags = NoFlags
    /\ \E s \in Scenarios : dirs = s.dirs /\ files = s.files /\ noperm = s.noperm
    /\ environ \in Environs
    /\ tx = NoEnvs
    /\ templateFiles = <<>>
    /\ idx = 1
    /\ log = <<>>
    /\ files0 = files
    /\ mirrored = NoMirror
    /\ runs = 1
    /\ call = NoCall
    /\ ret = Ok(<<>>)

\* main, lines 285-288
NewFlagsStep ==
    /\ pc = "flags"
    /\ \E args \in Args :
         LET r == NewFlags(args)
         IN  /\ flags' = r.flags
             /\ pc' = IF r.err # "nil" THEN "failed" ELSE "mirror"
             /\ failedIn' = IF r.err # "nil" THEN "flags" ELSE "none"
    /\ UNCHANGED <<dirs, files, noperm, environ, tx, templateFiles, idx, log,
                   files0, mirrored, runs, call, ret>>

\* Run, lines 230-235
MirrorStep ==
    /\ pc = "mirror"
    /\ LET r == IF flags.IDir # <<>>
                THEN recursiveCopyDir(dirs, files, noperm, flags.IDir, flags.ODir)
                ELSE [dirs |-> dirs, err |-> "nil"]
       IN  /\ dirs' = r.dirs
           /\ pc' = IF r.err # "nil" THEN "failed" ELSE "context"
           /\ failedIn' = IF r.err # "nil" THEN "mirror" ELSE "none"
           /\ mirrored' = IF flags.IDir = <<>> THEN mirrored
                          ELSE IF r.err = "nil" THEN [src |-> flags.IDir, rmt |-> flags.ODir]
                          ELSE NoMirror
    /\ UNCHANGED <<flags, files, noperm, environ, tx, templateFiles, idx, log,
                   files0, runs, call, ret>>

\* Run, line 237
ContextStep ==
    /\ pc = "context"
    /\ tx' = NewTemplateContext(environ)
    /\ pc' = "resolve"
    /\ UNCHANGED <<failedIn, flags, dirs, files, noperm, environ, templateFiles,
                   idx, log, files0, mirrored, runs, call, ret>>

\* Run, lines 239-258
ResolveStep ==
    /\ pc = "resolve"
    /\ LET r == Resolve(dirs, files, noperm, flags)
       IN  /\ templateFiles' = r.val
           /\ pc' = IF r.err # "nil" THEN "failed"
                    ELSE IF r.val = <<>> THEN "done" ELSE "load"
           /\ failedIn' = IF r.err # "nil" THEN "resolve" ELSE "none"
    /\ idx' = 1
    /\ UNCHANGED <<flags, dirs, files, noperm, environ, tx, log, files0,
                   mirrored, runs, call, ret>>

\* Run, lines 260-265
LoadStep ==
    /\ pc = "load"
    /\ LET r == LoadInput(dirs, files, noperm, templateFiles[idx])
           nxt == AfterCall("load", r.err, idx, Len(templateFiles))
       IN  /\ templateFiles' = [templateFiles EXCEPT ![idx] = r.tf]
           /\ log' = Append(log, Event("LoadInput", idx, r.err))
           /\ pc' = nxt.pc
           /\ idx' = nxt.idx
           /\ failedIn' = nxt.failedIn
    /\ UNCHANGED <<flags, dirs, files, noperm, environ, tx, files0, mirrored,
                   runs, call, ret>>

\* Run, lines 267-272
TemplateStep ==
    /\ pc = "render"
    /\ LET r == Template(tx, templateFiles[idx])
           nxt == AfterCall("render", r.err, idx, Len(templateFiles))
       IN  /\ templateFiles' = [templateFiles EXCEPT ![idx] = r.tf]
           /\ log' = Append(log, Event("Template", idx, r.err))
           /\ pc' = nxt.pc
           /\ idx' = nxt.idx
           /\ failedIn' = nxt.failedIn
           /\ call' = r.last.call
           /\ ret' = r.last.ret
    /\ UNCHANGED <<flags, dirs, files, noperm, environ, tx, files0, mirrored, runs>>

\* Run, lines 274-279
SaveStep ==
    /\ pc = "save"
    /\ LET r == SaveOutput(dirs, files, noperm, templateFiles[idx])
           nxt == AfterCall("save", r.err, idx, Len(templateFiles))
       IN  /\ files' = r.files
           /\ log' = Append(log, Event("SaveOutput", idx, r.err))
           /\ pc' = nxt.pc
           /\ idx' = nxt.idx
           /\ failedIn' = nxt.failedIn
    /\ UNCHANGED <<flags, dirs, noperm, environ, tx, templateFiles, files0,
                   mirrored, runs, call, ret>>

\* the process has exited; the program is started again on the same file system
Restart ==
    /\ pc \in {"done", "failed"}
    /\ runs < MaxRuns
    /\ runs' = runs + 1
    /\ pc' = "flags"
    /\ failedIn' = "none"
    /\ flags' = NoFlags
    /\ tx' = NoEnvs
    /\ templateFiles' = <<>>
    /\ idx' = 1
    /\ log' = <<>>
    /\ files0' = files
    /\ call' = NoCall
    /\ ret' = Ok(<<>>)
    /\ UNCHANGED <<dirs, files, noperm, environ, mirrored>>

Next ==
    \/ NewFlagsStep
    \/ MirrorStep
    \/ ContextStep
    \/ ResolveStep
    \/ LoadStep
    \/ TemplateStep
    \/ SaveStep
    \/ Restart

Spec == Init /\ [][Next]_vars

-----------------------------------------------------------------------------
(* Properties of the pipeline, checked under Spec *)

DirectoryMode == flags.IDir # <<>>

Loaded(j) == [op |-> "LoadInput", i |-> j, ok |-> TRUE]
Rendered(j) == [op |-> "Template", i |-> j, ok |-> TRUE]
Before(p, e) == \E q \in 1..(p - 1) : log[q] = e
Earlier(p) == {q \in 1..(p - 1) : log[q].op = log[p].op}

\* C1: the phases of Run are staged.  No Template call is made before
\* LoadInput has returned nil for every Template File, no SaveOutput call
\* before Template has returned nil for every Template File, and the k-th
\* call of each phase is for the k-th Template File.
C1_PhasesStaged ==
    \A p \in 1..Len(log) :
        /\ log[p].op = "Template" =>
              \A j \in 1..Len(templateFiles) : Before(p, Loaded(j))
        /\ log[p].op = "SaveOutput" =>
              \A j \in 1..Len(templateFiles) : Before(p, Rendered(j))
        /\ log[p].i = Cardinality(Earlier(p)) + 1

C1_Witness ==
    /\ pc = "done"
    /\ Len(templateFiles) >= 2
    /\ Len(log) = 3 * Len(templateFiles)

\* C2: once LoadInput or Template has failed for a Template File, the run
\* has ended with that error, SaveOutput was called for no Template File and
\* every file is as it was when the run started.
C2_NoOutputAfterFailure ==
    (\E p \in 1..Len(log) : log[p].op \in {"LoadInput", "Template"} /\ ~log[p].ok)
    => /\ pc = "failed"
       /\ failedIn \in {"load", "render"}
       /\ \A q \in 1..Len(log) : log[q].op # "SaveOutput"
       /\ files = files0

C2_Witness ==
    /\ pc = "failed"
    /\ failedIn = "render"
    /\ DirectoryMode
    /\ idx = 2
    /\ log[Len(log)] = [op |-> "Template", i |-> 2, ok |-> FALSE]

RunStarted ==
    \/ pc \in {"mirror", "context", "resolve", "load", "render", "save", "done"}
    \/ pc = "failed" /\ failedIn # "flags"

\* C3: Run is started only for a configuration in which exactly one of -if
\* and -id is non-empty and the paired output of that input is non-empty.
C3_RunOnlyIfExactlyOneInput ==
    RunStarted =>
        \/ flags.IFile # <<>> /\ flags.IDir = <<>> /\ flags.OFile # <<>>
        \/ flags.IDir # <<>> /\ flags.IFile = <<>> /\ flags.ODir # <<>>

\* C7: recursiveCopyDir run again with the src and rmt of a run that returned
\* nil returns nil and leaves the directory tree as it is.
C7_MirrorIdempotent ==
    [][(/\ pc = "mirror"
        /\ DirectoryMode
        /\ mirrored = [src |-> flags.IDir, rmt |-> flags.ODir])
       => (pc' = "context" /\ dirs' = dirs)]_vars

\* C8: in directory mode, when SaveOutput is called for a Template File the
\* parent of its output path is an existing directory.
C8_ParentDirExistsAtSave ==
    (pc = "save" /\ DirectoryMode) =>
        Parent(templateFiles[idx].OutputPath) \in dirs

Rank(n) == CHOOSE i \in 1..Len(NameOrder) : NameOrder[i] = n

\* p is listed before q: at the first component where they differ, p's name
\* comes first in its directory's listing
ListedBefore(p, q) ==
    \E i \in 1..Len(p) :
        /\ i <= Len(q)
        /\ SubSeq(p, 1, i - 1) = SubSeq(q, 1, i - 1)
        /\ Rank(p[i]) < Rank(q[i])

Rel(root, p) == SubSeq(p, Len(root) + 1, Len(p))
FilesUnder(root) == {p \in DOMAIN files : IsPrefix(root, p)}

\* C9: after a successful Resolve, in directory mode templateFiles holds one
\* entry per non-directory entry under inputDir and none for a directory, in
\* listing order, with input path inputDir/rel and output path outputDir/rel;
\* in file mode it holds the one entry (-if, -of).
C9_ResolvedTemplateFiles ==
    pc \in {"load", "render"} =>
        IF DirectoryMode
        THEN /\ {templateFiles[i].InputPath : i \in 1..Len(templateFiles)}
                  = FilesUnder(flags.IDir)
             /\ Len(templateFiles) = Cardinality(FilesUnder(flags.IDir))
             /\ \A i \in 1..Len(templateFiles) :
                  /\ templateFiles[i].InputPath \notin dirs
                  /\ templateFiles[i].OutputPath
                       = flags.ODir \o Rel(flags.IDir, templateFiles[i].InputPath)
             /\ \A i, j \in 1..Len(templateFiles) :
                  i < j => ListedBefore(templateFiles[i].InputPath,
                                        templateFiles[j].InputPath)
        ELSE /\ Len(templateFiles) = 1
             /\ templateFiles[1].InputPath = flags.IFile
             /\ templateFiles[1].OutputPath = flags.OFile

C9_Witness ==
    /\ pc = "load"
    /\ DirectoryMode
    /\ Len(templateFiles) >= 2
    /\ \E i \in 1..Len(templateFiles) :
          Len(Rel(flags.IDir, templateFiles[i].InputPath)) >= 2

SameAsAtStart(p) ==
    IF p \in DOMAIN files0 THEN p \in DOMAIN files /\ files[p] = files0[p]
    ELSE p \notin DOMAIN files

-----------------------------------------------------------------------------
(* The template context, checked under SpecCtx: a file-mode run whose       *)
(* environment and template are drawn from bounded sets.                    *)

A == <<"A">>
B == <<"B">>
C == <<"C">>

ValueChars == {"a", "=", ";", "\n"}
Values == SeqsUpTo(ValueChars, MaxValueLen)
Delims == {<<>>, <<";">>, <<"=">>, <<";", "=">>}
Entry(name, value) == name \o EQ \o value

\* B=a=a followed by A=<value>; C is never set
CtxEnvirons == {<<Entry(B, <<"a", "=", "a">>), Entry(A, v)>> : v \in Values}
CtxNames == {A, B, C}

CtxTemplates ==
    {Content(<<EnvAction(n)>>) : n \in CtxNames}
    \cup {Content(<<ListAction(n, d)>>) : n \in CtxNames, d \in Delims}
    \cup {Content(<<DictAction(n, i, kv, <<"a">>)>>) : n \in CtxNames, i \in Delims, kv \in Delims}
    \cup {Content(<<ExistAction(n, <<"a">>)>>) : n \in CtxNames}
    \cup {Content(<<NotExistAction(n, <<"a">>)>>) : n \in CtxNames}

InitCtx ==
    /\ pc = "mirror"
    /\ failedIn = "none"
    /\ flags = [IFile |-> A_TXT, OFile |-> <<"out", "a.txt">>, IDir |-> <<>>, ODir |-> <<>>]
    /\ dirs = {<<>>, InDir, OutDir}
    /\ \E c \in CtxTemplates : files = (A_TXT :> c)
    /\ noperm = {}
    /\ environ \in CtxEnvirons
    /\ tx = NoEnvs
    /\ templateFiles = <<>>
    /\ idx = 1
    /\ log = <<>>
    /\ files0 = files
    /\ mirrored = NoMirror
    /\ runs = 1
    /\ call = NoCall
    /\ ret = Ok(<<>>)

NextCtx ==
    \/ MirrorStep
    \/ ContextStep
    \/ ResolveStep
    \/ LoadStep
    \/ TemplateStep
    \/ SaveStep

SpecCtx == InitCtx /\ [][NextCtx]_vars

\* NAME and VALUE of a process environment entry NAME=VALUE
FirstEq(e) == CHOOSE i \in 1..Len(e) : e[i] = "=" /\ \A j \in 1..(i - 1) : e[j] # "="
NameOf(e) == SubSeq(e, 1, FirstEq(e) - 1)
ValueOf(e) == SubSeq(e, FirstEq(e) + 1, Len(e))

Absent(name) == \A i \in 1..Len(environ) : NameOf(environ[i]) # name
Present(name) == ~Absent(name)
ContextBuilt == pc \notin {"flags", "mirror", "context"}
TemplateCalled == call.op # "none"

\* C4: for a name absent from the environment Env, List and Dict fail with
\* the missing-variable error whatever the delimiters and the rendering
\* fails with it (no default is substituted), Exist returns false and
\* NotExist true; for a present name Exist returns true and NotExist false;
\* Exist and NotExist never fail.
C4_MissingVariable ==
    TemplateCalled =>
        /\ (Absent(call.name) /\ call.op \in {"Env", "List", "Dict"}) =>
              /\ ret.err = "MissingVariable"
              /\ pc = "failed" /\ failedIn = "render"
              /\ templateFiles[idx].Output = EmptyText
        /\ call.op = "Exist" => ret = Ok(Present(call.name))
        /\ call.op = "NotExist" => ret = Ok(Absent(call.name))

C4_Witness ==
    /\ call.op = "Dict"
    /\ Absent(call.name)
    /\ call.a # <<>> /\ call.b # <<>>
    /\ ret.err = "MissingVariable"

Occurs(s, sep) == \E i \in 1..(Len(s) + 1), j \in 0..Len(s) : SubSeq(s, i, j) = sep
Items(value, itemDelimiter) == Split(value, itemDelimiter)
SomeItemLacks(value, itemDelimiter, kvDelimiter) ==
    \E n \in 1..Len(Items(value, itemDelimiter)) :
        ~Occurs(Items(value, itemDelimiter)[n], kvDelimiter)

\* C5: Dict on a present variable fails with the index error (MalformedPair)
\* whenever an item of the value split on itemDelimiter does not contain
\* kvDelimiter; no map is returned, and the failure is an evaluation error
\* of the render phase that ends the run with no output written.
C5_MalformedPair ==
    (/\ call.op = "Dict"
     /\ Present(call.name)
     /\ SomeItemLacks(tx[call.name], call.a, call.b))
    => /\ ret.err = "IndexOutOfRange"
       /\ ret.val = <<>>
       /\ pc = "failed" /\ failedIn = "render"
       /\ log[Len(log)] = [op |-> "Template", i |-> idx, ok |-> FALSE]
       /\ files = files0

\* a value that ends with the item delimiter after a well-formed pair
C5_Witness ==
    /\ call.op = "Dict"
    /\ call.name = A
    /\ call.a = <<";">> /\ call.b = <<"=">>
    /\ tx[A] = <<"a", "=", ";">>
    /\ ret.err = "IndexOutOfRange"
    /\ pc = "failed"

\* C6: the environment table maps NAME, the text before the first "=" of an
\* entry, to VALUE with only its trailing newlines removed, and Env(NAME)
\* returns that value.
C6_OnlyTrailingNewlinesTrimmed ==
    ContextBuilt =>
        \A i \in 1..Len(environ) :
            /\ NameOf(environ[i]) \in DOMAIN tx
            /\ tx[NameOf(environ[i])] = TrimRight(ValueOf(environ[i]), NL)
            /\ Env(tx, NameOf(environ[i])) = Ok(TrimRight(ValueOf(environ[i]), NL))

=============================================================================
